---- MODULE Spec2Model ----
(***************************************************************************)
(* Self-driving car simulation: the grid world (environment.py), the A*    *)
(* planner (pathfinding.py) and the decision engine (agent.py), with the   *)
(* driver's caller operations (main.py).                                   *)
(*                                                                         *)
(* Positions are pairs <<x, y>> (column, row).  Distances that the code    *)
(* keeps as math.sqrt(dx**2 + dy**2) are kept as the squared integer       *)
(* dx^2 + dy^2: sqrt is strictly increasing, so every comparison the code  *)
(* makes between two such distances is the comparison of the squares, and  *)
(* int(sqrt(n)) is the integer square root ISqrt(n).                       *)
(***************************************************************************)
EXTENDS Integers, Sequences, FiniteSets, TLC

(* ---------------- bounds of the model ---------------- *)
\* grid of the planner and agent specifications (grid_width x grid_height)
GridW == 3
GridH == 5
\* num_obstacles handed to _place_obstacles in the planner and reward specifications
PlanObstacles == 1
\* num_obstacles handed to _place_obstacles and regenerate_obstacles in the agent specification
NumObstacles == 2
\* grid of the obstacle-free planner specification and of the reward specification
RoadsW == 11
RoadsH == 6
\* ticks of one episode in the agent specification (the caller stops calling step)
MaxTicks == 3
\* value of main's episode counter at which the caller stops resetting
MaxEpisodes == 2
\* calls of set_destination and regenerate_obstacles the caller makes
MaxEnvChanges == 1
\* decimal places to which epsilon is carried
EpsDigits == 4
\* ticks of one episode and episodes in the annealing specification
AnnealTicks == 2
AnnealEpisodes == 400
\* decimal places to which the values of q_table are carried
QDigits == 3
\* greatest whole number a value of q_table starts from where update_q_table
\* runs by itself
MaxQ == 1
\* ticks of one episode in the plan-following specification
FollowTicks == 6
\* calls of set_destination and regenerate_obstacles in the environment specification
EnvCalls == 3
\* grid of the value-table key specification: start_pos and the constructed
\* destination lie more than 20 cells apart
LongW == 26
LongH == 5

(* ---------------- constants of the program ---------------- *)
max_steps == 500
replan_every_n_steps == 30
replan_on_deviation_threshold == 2
\* the radius get_state passes to get_obstacles_in_radius
ObstacleRadius == 5

VARIABLES
    \* Environment
    grid_width, grid_height, road_map, start_pos, destination, obstacles,
    \* AStar.find_path, one call in progress
    fp_pc, fp_start, fp_goal, open_set, came_from, g_score, f_score, fp_path,
    \* SelfDrivingAgent
    position, heading, epsilon, planned_path, total_reward, steps,
    prev_dest_dist, last_replan_step, q_table,
    \* the values calculate_reward and step returned last
    reward, done,
    \* the locals state, action and next_state of the last step()
    state, action, next_state,
    \* the value lists of q_table, carried where update_q_table runs by itself
    q_values,
    \* main: the episode counter, and the number of set_destination and
    \* regenerate_obstacles calls made so far
    episode, env_changes

envVars == <<grid_width, grid_height, road_map, start_pos, destination, obstacles>>
fpVars == <<fp_pc, fp_start, fp_goal, open_set, came_from, g_score, f_score, fp_path>>
agentVars == <<position, heading, epsilon, planned_path, total_reward, steps,
               prev_dest_dist, last_replan_step, q_table>>
callerVars == <<reward, done, episode, env_changes>>
stepVars == <<state, action, next_state>>
vars == <<envVars, fpVars, agentVars, callerVars, stepVars, q_values>>

(* ---------------- helpers ---------------- *)
Abs(n) == IF n < 0 THEN -n ELSE n

Min(a, b) == IF a <= b THEN a ELSE b

(* ---------------- environment.py ---------------- *)
\* every cell of a gw x gh grid
Cells(gw, gh) == (0..(gw - 1)) \X (0..(gh - 1))

\* _create_road_layout: a horizontal band of five rows around the middle row
\* and two vertical roads, three cells wide, outside the band
CreateRoadLayout(gw, gh) ==
    LET road_start == (gh \div 2) - 2
        road_end == (gh \div 2) + 3
        InBand(y) == road_start <= y /\ y < road_end
        OnVertical(x) == \E road_x \in {gw \div 3, (2 * gw) \div 3} :
                             road_x - 1 <= x /\ x < road_x + 2
    IN [y \in 0..(gh - 1) |->
          [x \in 0..(gw - 1) |-> IF InBand(y) \/ OnVertical(x) THEN 1 ELSE 0]]

\* __init__: start_pos and the first destination
InitialStart(gw, gh) == <<2, gh \div 2>>

InitialDestination(gw, gh) == <<gw - 3, gh \div 2>>

InBounds(pos) ==
    /\ 0 <= pos[1] /\ pos[1] < grid_width
    /\ 0 <= pos[2] /\ pos[2] < grid_height

is_road(pos) == InBounds(pos) /\ road_map[pos[2]][pos[1]] = 1

is_valid_position(pos) == is_road(pos) /\ pos \notin obstacles

RECURSIVE SetsUpTo(_, _)
\* the subsets of E of at most k elements: what k successful draws can add up to
SetsUpTo(E, k) ==
    IF k = 0 THEN {{}}
    ELSE LET smaller == SetsUpTo(E, k - 1)
         IN smaller \cup {S \cup {c} : S \in smaller, c \in E}

\* _place_obstacles that does not keep start_pos free
PlaceObstacles_on_start(num, gw, gh, rm, st, dest) ==
    LET eligible == {c \in Cells(gw, gh) : rm[c[2]][c[1]] = 1 /\ c # dest}
    IN SetsUpTo(eligible, num)

\* _place_obstacles(num_obstacles): the random draws can produce any set of at
\* most num_obstacles road cells that avoids start_pos and the destination held
\* at the time of the call (fewer than num_obstacles when the attempts run out)
PlaceObstacles(num, gw, gh, rm, st, dest) ==
    LET eligible == {c \in Cells(gw, gh) : rm[c[2]][c[1]] = 1 /\ c # st /\ c # dest}
    IN SetsUpTo(eligible, num)

(* ---------------- pathfinding.py ---------------- *)
heuristic(pos1, pos2) == Abs(pos1[1] - pos2[1]) + Abs(pos1[2] - pos2[2])

\* the list of deltas with (-1, 0) left out
NeighborDeltas_no_left == << <<0, 1>>, <<0, -1>>, <<1, 0>>, <<1, 0>> >>

\* the four deltas in the order get_neighbors tries them
NeighborDeltas == << <<0, 1>>, <<0, -1>>, <<1, 0>>, <<-1, 0>> >>

\* get_neighbors testing the cell for road surface only, not for obstacles
get_neighbors_ignoring_obstacles(pos) ==
    LET cand == [i \in 1..4 |-> <<pos[1] + NeighborDeltas[i][1], pos[2] + NeighborDeltas[i][2]>>]
    IN SelectSeq(cand, is_road)

get_neighbors(pos) ==
    LET cand == [i \in 1..4 |-> <<pos[1] + NeighborDeltas[i][1], pos[2] + NeighborDeltas[i][2]>>]
    IN SelectSeq(cand, is_valid_position)

RECURSIVE reconstruct_walk(_, _)
\* the list built from the goal back to the start, before the reversal
reconstruct_walk(cf, current) ==
    IF current \in DOMAIN cf
    THEN <<current>> \o reconstruct_walk(cf, cf[current])
    ELSE <<current>>

Reverse(s) == [i \in 1..Len(s) |-> s[Len(s) + 1 - i]]

\* reconstruct_path returning the list as built, goal first
reconstruct_path_unreversed(cf, current) == reconstruct_walk(cf, current)

reconstruct_path(cf, current) == Reverse(reconstruct_walk(cf, current))

\* heapq orders the entries (f, (x, y)) as Python orders tuples
EntryLeq(a, b) ==
    \/ a[1] < b[1]
    \/ a[1] = b[1] /\ a[2][1] < b[2][1]
    \/ a[1] = b[1] /\ a[2][1] = b[2][1] /\ a[2][2] <= b[2][2]

\* a pop that returns the greatest entry
HeapMax(heap) == CHOOSE e \in heap : \A o \in heap : EntryLeq(o, e)

\* heappop returns the least entry
HeapMin(heap) == CHOOSE e \in heap : \A o \in heap : EntryLeq(e, o)

Put(f, k, v) == [x \in (DOMAIN f) \cup {k} |-> IF x = k THEN v ELSE f[x]]

\* lines 42-49: the search state at the first evaluation of the loop condition
AStarInit(start, goal) ==
    [open_set |-> {<<0, start>>},
     came_from |-> [x \in {} |-> start],
     g_score |-> [x \in {start} |-> 0],
     f_score |-> [x \in {start} |-> heuristic(start, goal)]]

\* lines 63-74 for one neighbor of current
RelaxNeighbor(st, current, neighbor, goal) ==
    LET tentative_g_score == st.g_score[current] + 1
    IN IF neighbor \notin DOMAIN st.g_score \/ tentative_g_score < st.g_score[neighbor]
       THEN LET f == tentative_g_score + heuristic(neighbor, goal)
            IN [open_set |-> IF \E item \in st.open_set : item[2] = neighbor
                             THEN st.open_set
                             ELSE st.open_set \cup {<<f, neighbor>>},
                came_from |-> Put(st.came_from, neighbor, current),
                g_score |-> Put(st.g_score, neighbor, tentative_g_score),
                f_score |-> Put(st.f_score, neighbor, f)]
       ELSE st

RECURSIVE RelaxAll(_, _, _, _)
\* lines 61-74: the for loop over get_neighbors(current)
RelaxAll(st, current, nbrs, goal) ==
    IF nbrs = <<>> THEN st
    ELSE RelaxAll(RelaxNeighbor(st, current, Head(nbrs), goal), current, Tail(nbrs), goal)

\* lines 54 and 61-74: pop current (not the goal) and relax its neighbors
AStarExpand(st, goal) ==
    LET entry == HeapMin(st.open_set)
        popped == [st EXCEPT !.open_set = st.open_set \ {entry}]
    IN RelaxAll(popped, entry[2], get_neighbors(entry[2]), goal)

RECURSIVE AStarRun(_, _)
\* lines 52-77: the while loop, run to its return value
AStarRun(st, goal) ==
    IF st.open_set = {} THEN <<>>
    ELSE IF HeapMin(st.open_set)[2] = goal
         THEN reconstruct_path(st.came_from, goal)
         ELSE AStarRun(AStarExpand(st, goal), goal)

\* find_path returning the path without the cell it starts from
find_path_without_start(start, goal) ==
    LET path == AStarRun(AStarInit(start, goal), goal)
    IN IF path = <<>> THEN <<>> ELSE Tail(path)

find_path(start, goal) == AStarRun(AStarInit(start, goal), goal)

\* the search state of the call in progress
FpState == [open_set |-> open_set, came_from |-> came_from,
            g_score |-> g_score, f_score |-> f_score]

SetFpState(st) ==
    /\ open_set' = st.open_set
    /\ came_from' = st.came_from
    /\ g_score' = st.g_score
    /\ f_score' = st.f_score

(* ---------------- agent.py: the functions of SelfDrivingAgent ---------------- *)
\* the unit of epsilon: epsilon is an integer number of 10^-EpsDigits
EpsUnit == 10 ^ EpsDigits

\* epsilon = 0.3 of __init__, and the floor 0.05 and decay 0.995 of reset
EpsilonInitial == (3 * EpsUnit) \div 10

EpsilonFloor == (5 * EpsUnit) \div 100

\* epsilon * 0.995, the product rounded to the nearest unit as the float
\* product is rounded to the nearest double
Decay(eps) == (eps * 995 + 500) \div 1000

\* the decay with the floor left out
AnnealedEpsilon_without_floor(eps) == Decay(eps)

\* max(0.05, epsilon * 0.995)
AnnealedEpsilon(eps) == IF Decay(eps) < EpsilonFloor THEN EpsilonFloor ELSE Decay(eps)

actions == 0..3

\* self.directions, indexed by heading + 1: East, South, West, North
directions == << <<1, 0>>, <<0, 1>>, <<-1, 0>>, <<0, -1>> >>

\* (x1 - x2)**2 + (y1 - y2)**2, the square of the distance the code computes
DistSq(a, b) == (a[1] - b[1]) * (a[1] - b[1]) + (a[2] - b[2]) * (a[2] - b[2])

\* int(math.sqrt(n))
ISqrt(n) == CHOOSE k \in 0..n : k * k <= n /\ (k + 1) * (k + 1) > n

\* the least squared distance from pos to a cell of the non-empty set S
MinDistSq(pos, S) ==
    LET c == CHOOSE x \in S : \A y \in S : DistSq(pos, x) <= DistSq(pos, y)
    IN DistSq(pos, c)

\* the cells of a sequence of cells
CellsOf(path) == {path[i] : i \in 1..Len(path)}

\* get_obstacles_in_radius(pos, radius)
get_obstacles_in_radius(pos, radius) ==
    {o \in obstacles : DistSq(pos, o) <= radius * radius}

\* a replan that installs whatever the planner returns, the empty path included
Replanned_unconditionally(pos, plan) ==
    LET path == find_path(pos, destination)
    IN IF path # <<>> THEN Tail(path) ELSE <<>>

\* the assignment a replan makes: the plan is replaced only by a non-empty path
Replanned(pos, plan) ==
    LET path == find_path(pos, destination)
    IN IF path # <<>> THEN Tail(path) ELSE plan

\* _maybe_replan with the scan of the plan for obstacles left out
maybe_replan_without_scan(pos, plan, stp, last) ==
    IF stp - last >= replan_every_n_steps
    THEN [planned_path |-> Replanned(pos, plan), last_replan_step |-> stp]
    ELSE IF plan # <<>> /\ MinDistSq(pos, CellsOf(plan)) >
                              replan_on_deviation_threshold * replan_on_deviation_threshold
    THEN [planned_path |-> Replanned(pos, plan), last_replan_step |-> stp]
    ELSE [planned_path |-> plan, last_replan_step |-> last]

\* _maybe_replan with the agent at pos holding plan, at step count stp, the
\* last replan made at step count last: the plan and last-replan step it leaves
maybe_replan(pos, plan, stp, last) ==
    IF stp - last >= replan_every_n_steps
    THEN [planned_path |-> Replanned(pos, plan), last_replan_step |-> stp]
    ELSE IF plan # <<>> /\ CellsOf(plan) \cap obstacles # {}
    THEN [planned_path |-> Replanned(pos, plan), last_replan_step |-> stp]
    ELSE IF plan # <<>> /\ MinDistSq(pos, CellsOf(plan)) >
                              replan_on_deviation_threshold * replan_on_deviation_threshold
    THEN [planned_path |-> Replanned(pos, plan), last_replan_step |-> stp]
    ELSE [planned_path |-> plan, last_replan_step |-> last]

\* get_state with the destination distance left unclamped
get_state_unclamped(pos, head, plan) ==
    LET nearby == get_obstacles_in_radius(pos, ObstacleRadius)
        min_obstacle_dist == IF nearby = {} THEN ObstacleRadius
                             ELSE ISqrt(MinDistSq(pos, nearby))
        path_dev == IF plan = <<>> THEN 0
                    ELSE Min(ISqrt(MinDistSq(pos, CellsOf(plan))), 3)
    IN << ISqrt(DistSq(pos, destination)), Min(min_obstacle_dist, 5), head, path_dev >>

\* get_state: (dest_dist, min_obstacle_dist, heading, path_dev)
get_state(pos, head, plan) ==
    LET nearby == get_obstacles_in_radius(pos, ObstacleRadius)
        min_obstacle_dist == IF nearby = {} THEN ObstacleRadius
                             ELSE ISqrt(MinDistSq(pos, nearby))
        path_dev == IF plan = <<>> THEN 0
                    ELSE Min(ISqrt(MinDistSq(pos, CellsOf(plan))), 3)
    IN << Min(ISqrt(DistSq(pos, destination)), 20), Min(min_obstacle_dist, 5), head, path_dev >>

\* choose_action follows the plan when its head is one unit move away
FollowsPlan(pos, plan) ==
    /\ plan # <<>>
    /\ <<plan[1][1] - pos[1], plan[1][2] - pos[2]>> \in {directions[i] : i \in 1..4}

\* the heading that faces away from the unit move delta
DesiredHeading_opposite(delta) == ((CHOOSE i \in 1..4 : directions[i] = delta) + 1) % 4

\* the heading that the unit move delta calls for
DesiredHeading(delta) == (CHOOSE i \in 1..4 : directions[i] = delta) - 1

\* choose_action turning left, not right, towards the head of the plan
choose_action_turning_left(pos, head, plan) ==
    IF FollowsPlan(pos, plan)
    THEN IF head = DesiredHeading(<<plan[1][1] - pos[1], plan[1][2] - pos[2]>>)
         THEN {0} ELSE {2}
    ELSE actions

\* choose_action: the actions it can return.  Following the plan it returns
\* forward when the heading is the desired one and turn-right otherwise.
\* Without a plan to follow it draws from the value table: with probability
\* epsilon > 0 any action, otherwise an action of greatest value (the values
\* are floats the model does not carry), so any action can come back.
choose_action(pos, head, plan) ==
    IF FollowsPlan(pos, plan)
    THEN IF head = DesiredHeading(<<plan[1][1] - pos[1], plan[1][2] - pos[2]>>)
         THEN {0} ELSE {1}
    ELSE actions

\* execute_action popping the head of the plan on every forward move
execute_action_popping_always(act, pos, head, plan) ==
    LET d == directions[head + 1]
        fwd == <<pos[1] + d[1], pos[2] + d[2]>>
        back == <<pos[1] - d[1], pos[2] - d[2]>>
    IN CASE act = 0 ->
              IF is_valid_position(fwd)
              THEN [position |-> fwd, heading |-> head,
                    planned_path |-> IF plan # <<>> THEN Tail(plan) ELSE plan]
              ELSE [position |-> pos, heading |-> head, planned_path |-> plan]
         [] act = 1 -> [position |-> pos, heading |-> (head + 1) % 4, planned_path |-> plan]
         [] act = 2 -> [position |-> pos, heading |-> (head + 3) % 4, planned_path |-> plan]
         [] act = 3 ->
              IF is_valid_position(back)
              THEN [position |-> back, heading |-> head, planned_path |-> plan]
              ELSE [position |-> pos, heading |-> head, planned_path |-> plan]

\* execute_action: the position, heading and plan it leaves
execute_action(act, pos, head, plan) ==
    LET d == directions[head + 1]
        fwd == <<pos[1] + d[1], pos[2] + d[2]>>
        back == <<pos[1] - d[1], pos[2] - d[2]>>
    IN CASE act = 0 ->
              IF is_valid_position(fwd)
              THEN [position |-> fwd, heading |-> head,
                    planned_path |-> IF plan # <<>> /\ plan[1] = fwd THEN Tail(plan) ELSE plan]
              ELSE [position |-> pos, heading |-> head, planned_path |-> plan]
         [] act = 1 -> [position |-> pos, heading |-> (head + 1) % 4, planned_path |-> plan]
         [] act = 2 -> [position |-> pos, heading |-> (head + 3) % 4, planned_path |-> plan]
         [] act = 3 ->
              IF is_valid_position(back)
              THEN [position |-> back, heading |-> head, planned_path |-> plan]
              ELSE [position |-> pos, heading |-> head, planned_path |-> plan]

\* calculate_reward with the step penalty left out
calculate_reward_no_step_penalty(pos, prev) ==
    IF pos = destination THEN [reward |-> 100, done |-> TRUE, prev_dest_dist |-> prev]
    ELSE IF pos \in obstacles THEN [reward |-> -100, done |-> TRUE, prev_dest_dist |-> prev]
    ELSE LET dist == DistSq(pos, destination)
         IN [reward |-> (IF is_road(pos) THEN 0 ELSE -10)
                        + (IF prev # <<>> /\ dist < prev[1] THEN 2 ELSE 0),
             done |-> FALSE,
             prev_dest_dist |-> <<dist>>]

\* calculate_reward at position pos with prev_dest_dist prev (<<>> is None,
\* <<d>> the squared distance d): the reward, the done flag and the
\* prev_dest_dist it leaves
calculate_reward(pos, prev) ==
    IF pos = destination THEN [reward |-> -1 + 100, done |-> TRUE, prev_dest_dist |-> prev]
    ELSE IF pos \in obstacles THEN [reward |-> -1 - 100, done |-> TRUE, prev_dest_dist |-> prev]
    ELSE LET dist == DistSq(pos, destination)
         IN [reward |-> -1 + (IF is_road(pos) THEN 0 ELSE -10)
                           + (IF prev # <<>> /\ dist < prev[1] THEN 2 ELSE 0),
             done |-> FALSE,
             prev_dest_dist |-> <<dist>>]

\* the ceiling tested one step late
ceiling_reached_late(n) == n > max_steps

\* the step ceiling of step(): self.steps >= self.max_steps
ceiling_reached(n) == n >= max_steps

\* update_q_table(state, action, reward, next_state): both keys are in the
\* table afterwards (q_table is kept as the set of its keys)
update_q_table(table, s1, s2) == table \cup {s1, s2}

\* find_path is entered: lines 42-49
FindPathEnter ==
    /\ fp_pc = "call"
    /\ SetFpState(AStarInit(fp_start, fp_goal))
    /\ fp_pc' = "loop"
    /\ UNCHANGED <<envVars, agentVars, callerVars, stepVars, q_values, fp_start, fp_goal, fp_path>>

\* one iteration of the while loop that pops a cell other than the goal
FindPathExpand ==
    /\ fp_pc = "loop"
    /\ open_set # {}
    /\ HeapMin(open_set)[2] # fp_goal
    /\ SetFpState(AStarExpand(FpState, fp_goal))
    /\ UNCHANGED <<envVars, agentVars, callerVars, stepVars, q_values, fp_pc, fp_start, fp_goal, fp_path>>

\* the iteration that pops the goal: lines 57-58
FindPathReturnPath ==
    /\ fp_pc = "loop"
    /\ open_set # {}
    /\ HeapMin(open_set)[2] = fp_goal
    /\ open_set' = open_set \ {HeapMin(open_set)}
    /\ fp_path' = reconstruct_path(came_from, fp_goal)
    /\ fp_pc' = "done"
    /\ UNCHANGED <<envVars, agentVars, callerVars, stepVars, q_values, fp_start, fp_goal, came_from, g_score, f_score>>

\* the loop ends with the frontier empty: lines 76-77
FindPathReturnEmpty ==
    /\ fp_pc = "loop"
    /\ open_set = {}
    /\ fp_path' = <<>>
    /\ fp_pc' = "done"
    /\ UNCHANGED <<envVars, agentVars, callerVars, stepVars, q_values, fp_start, fp_goal, open_set, came_from, g_score, f_score>>

NextPlan == FindPathEnter \/ FindPathExpand \/ FindPathReturnPath \/ FindPathReturnEmpty

\* SelfDrivingAgent.__init__ on the constructed environment, and main's
\* episode = 1
AgentInit ==
    /\ position = start_pos
    /\ heading = 0
    /\ epsilon = EpsilonInitial
    /\ planned_path = <<>>
    /\ total_reward = 0
    /\ steps = 0
    /\ prev_dest_dist = <<>>
    /\ last_replan_step = 0
    /\ q_table = {}
    /\ reward = 0
    /\ done = FALSE
    /\ state = <<>>
    /\ action = -1
    /\ next_state = <<>>
    /\ q_values = <<>>
    /\ episode = 1
    /\ env_changes = 0

\* an environment as Environment(width, height) constructs it, with obstacle
\* set obs
EnvInit(gw, gh, obs) ==
    /\ grid_width = gw
    /\ grid_height = gh
    /\ road_map = CreateRoadLayout(gw, gh)
    /\ start_pos = InitialStart(gw, gh)
    /\ destination = InitialDestination(gw, gh)
    /\ obstacles = obs

FpIdle(start, goal) ==
    /\ fp_pc = "call"
    /\ fp_start = start
    /\ fp_goal = goal
    /\ open_set = {}
    /\ came_from = [x \in {} |-> start]
    /\ g_score = [x \in {} |-> 0]
    /\ f_score = [x \in {} |-> 0]
    /\ fp_path = <<>>

\* an outcome of _place_obstacles(15) that walls the cell c in: every road cell
\* one unit move away from c that is neither start_pos nor the destination
WallAround(c, gw, gh, rm, st, dest) ==
    {n \in Cells(gw, gh) : rm[n[2]][n[1]] = 1 /\ n # st /\ n # dest /\ heuristic(n, c) = 1}

\* find_path(start, goal) called on a constructed environment, for every pair
\* of cells of the grid; the obstacle sets are those of at most PlanObstacles
\* cells and those that wall one cell in
InitPlan ==
    \E obs \in PlaceObstacles(PlanObstacles, GridW, GridH, CreateRoadLayout(GridW, GridH),
                              InitialStart(GridW, GridH), InitialDestination(GridW, GridH))
                   \cup {WallAround(c, GridW, GridH, CreateRoadLayout(GridW, GridH),
                                    InitialStart(GridW, GridH), InitialDestination(GridW, GridH)) :
                            c \in Cells(GridW, GridH)} :
      \E s \in Cells(GridW, GridH), g \in Cells(GridW, GridH) :
        /\ EnvInit(GridW, GridH, obs)
        /\ FpIdle(s, g)
        /\ AgentInit

SpecPlan == InitPlan /\ [][NextPlan]_vars

\* find_path(start, goal) called on a constructed environment whose obstacle
\* set is empty, for every pair of cells of the grid
InitRoads ==
    \E s \in Cells(RoadsW, RoadsH), g \in Cells(RoadsW, RoadsH) :
        /\ EnvInit(RoadsW, RoadsH, {})
        /\ FpIdle(s, g)
        /\ AgentInit

SpecRoads == InitRoads /\ [][NextPlan]_vars

\* the unit of the values of q_table: a value is an integer number of
\* 10^-QDigits
QUnit == 10 ^ QDigits

\* max(self.q_table[key])
MaxValue(values) ==
    CHOOSE v \in {values[i] : i \in 1..4} : \A i \in 1..4 : values[i] <= v

\* the table with the entry [0.0] * len(self.actions) made for key if absent
WithEntry(table, key) ==
    IF key \in DOMAIN table THEN table ELSE table @@ (key :> <<0, 0, 0, 0>>)

\* update_q_table with the discount factor left out
update_q_values_undiscounted(table, s1, a, r, s2) ==
    LET t == WithEntry(WithEntry(table, s1), s2)
        current_q == t[s1][a + 1]
        max_next_q == MaxValue(t[s2])
    IN [t EXCEPT ![s1][a + 1] = current_q + (10 * (r * QUnit + max_next_q - current_q)) \div 100]

\* update_q_table(state, action, reward, next_state) on the values:
\* current_q + 0.1 * (reward + 0.95 * max_next_q - current_q)
update_q_values(table, s1, a, r, s2) ==
    LET t == WithEntry(WithEntry(table, s1), s2)
        current_q == t[s1][a + 1]
        max_next_q == MaxValue(t[s2])
    IN [t EXCEPT ![s1][a + 1] =
            current_q + (10 * (r * QUnit + (95 * max_next_q) \div 100 - current_q)) \div 100]

(* ---------------- agent.py and main.py: the operations ---------------- *)
\* step(): the initial plan of an episode, _maybe_replan, get_state,
\* choose_action, execute_action, calculate_reward, the counters,
\* update_q_table and the step ceiling
Step ==
    LET plan0 == IF steps = 0 THEN Replanned(position, planned_path) ELSE planned_path
        prev0 == IF steps = 0 THEN <<DistSq(position, destination)>> ELSE prev_dest_dist
        rp == maybe_replan(position, plan0, steps, last_replan_step)
        st == get_state(position, heading, rp.planned_path)
    IN \E a \in choose_action(position, heading, rp.planned_path) :
         LET ex == execute_action(a, position, heading, rp.planned_path)
             rw == calculate_reward(ex.position, prev0)
             nst == get_state(ex.position, ex.heading, ex.planned_path)
         IN /\ position' = ex.position
            /\ heading' = ex.heading
            /\ planned_path' = ex.planned_path
            /\ last_replan_step' = rp.last_replan_step
            /\ prev_dest_dist' = rw.prev_dest_dist
            /\ reward' = rw.reward
            /\ total_reward' = total_reward + rw.reward
            /\ steps' = steps + 1
            /\ state' = st
            /\ action' = a
            /\ next_state' = nst
            /\ q_table' = update_q_table(q_table, st, nst)
            /\ done' = (rw.done \/ ceiling_reached(steps + 1))
            /\ UNCHANGED <<envVars, fpVars, epsilon, episode, env_changes, q_values>>

\* a reset that also clears the obstacles of the environment
Reset_clearing_obstacles ==
    /\ position' = start_pos
    /\ heading' = 0
    /\ total_reward' = 0
    /\ steps' = 0
    /\ planned_path' = <<>>
    /\ prev_dest_dist' = <<>>
    /\ epsilon' = AnnealedEpsilon(epsilon)
    /\ episode' = episode + 1
    /\ done' = FALSE
    /\ obstacles' = {}
    /\ UNCHANGED <<grid_width, grid_height, road_map, start_pos, destination,
                   fpVars, last_replan_step, q_table, reward, env_changes, stepVars, q_values>>

\* reset(), and the episode += 1 with which main follows it
Reset ==
    /\ position' = start_pos
    /\ heading' = 0
    /\ total_reward' = 0
    /\ steps' = 0
    /\ planned_path' = <<>>
    /\ prev_dest_dist' = <<>>
    /\ epsilon' = AnnealedEpsilon(epsilon)
    /\ episode' = episode + 1
    /\ done' = FALSE
    /\ UNCHANGED <<envVars, fpVars, last_replan_step, q_table, reward, env_changes, stepVars, q_values>>

\* update_environment_ref(environment)
UpdateEnvironmentRef ==
    /\ planned_path' = <<>>
    /\ prev_dest_dist' = <<>>
    /\ env_changes' = env_changes + 1
    /\ UNCHANGED <<envVars, fpVars, position, heading, epsilon, total_reward, steps,
                   last_replan_step, q_table, reward, done, episode, stepVars, q_values>>

\* set_destination accepting every road cell, obstacles included
set_destination_on_any_road(pos) ==
    IF is_road(pos) THEN [destination |-> pos, result |-> TRUE]
    ELSE [destination |-> destination, result |-> FALSE]

\* set_destination(pos): the destination it leaves and the value it returns
set_destination(pos) ==
    IF is_valid_position(pos) THEN [destination |-> pos, result |-> TRUE]
    ELSE [destination |-> destination, result |-> FALSE]

\* the cells handed to set_destination: those of the grid and those one step
\* outside it
DestinationInputs == ((-1)..grid_width) \X ((-1)..grid_height)

\* set_destination(pos): an invalid pos leaves the destination as it is
SetDestination ==
    /\ \E pos \in DestinationInputs : destination' = set_destination(pos).destination
    /\ env_changes' = env_changes + 1
    /\ UNCHANGED <<grid_width, grid_height, road_map, start_pos, obstacles,
                   fpVars, agentVars, reward, done, episode, stepVars, q_values>>

\* regenerate_obstacles(num)
Regenerate(num) ==
    /\ obstacles' \in PlaceObstacles(num, grid_width, grid_height, road_map,
                                     start_pos, destination)
    /\ env_changes' = env_changes + 1
    /\ UNCHANGED <<grid_width, grid_height, road_map, start_pos, destination,
                   fpVars, agentVars, reward, done, episode, stepVars, q_values>>

\* regenerate_obstacles(num_obstacles)
RegenerateObstacles == Regenerate(NumObstacles)

\* no call of find_path is in progress between the operations of the agent
FpRest ==
    /\ fp_pc = "rest"
    /\ fp_start = start_pos
    /\ fp_goal = destination
    /\ open_set = {}
    /\ came_from = [x \in {} |-> start_pos]
    /\ g_score = [x \in {} |-> 0]
    /\ f_score = [x \in {} |-> 0]
    /\ fp_path = <<>>

\* the environment and the agent as main constructs them
Init ==
    /\ \E obs \in PlaceObstacles(NumObstacles, GridW, GridH, CreateRoadLayout(GridW, GridH),
                                 InitialStart(GridW, GridH), InitialDestination(GridW, GridH)) :
         EnvInit(GridW, GridH, obs)
    /\ FpRest
    /\ AgentInit

\* a caller that calls the operations of the agent and of the environment in
\* any order
Next ==
    \/ (steps < MaxTicks /\ Step)
    \/ (episode < MaxEpisodes /\ Reset)
    \/ (env_changes < MaxEnvChanges /\ UpdateEnvironmentRef)
    \/ (env_changes < MaxEnvChanges /\ SetDestination)
    \/ (env_changes < MaxEnvChanges /\ RegenerateObstacles)

Spec == Init /\ [][Next]_vars

\* main up to its loop: the environment and the agent constructed, a first
\* destination drawn by random_destination and set, the obstacles regenerated
\* around it, update_environment_ref called
InitMain ==
    /\ \E dest \in Cells(GridW, GridH) \ {InitialStart(GridW, GridH)} :
         \E obs \in PlaceObstacles(NumObstacles, GridW, GridH, CreateRoadLayout(GridW, GridH),
                                    InitialStart(GridW, GridH), dest) :
            /\ CreateRoadLayout(GridW, GridH)[dest[2]][dest[1]] = 1
            /\ grid_width = GridW
            /\ grid_height = GridH
            /\ road_map = CreateRoadLayout(GridW, GridH)
            /\ start_pos = InitialStart(GridW, GridH)
            /\ destination = dest
            /\ obstacles = obs
    /\ FpRest
    /\ AgentInit

\* ticks, with the obstacles regenerated between them
NextReplan ==
    \/ (steps < MaxTicks /\ Step)
    \/ (env_changes < MaxEnvChanges /\ RegenerateObstacles)

SpecReplan == InitMain /\ [][NextReplan]_vars

\* main up to its loop, with the corner cell (0, 0) drawn as the first
\* destination and the obstacles regenerated onto every cell around start_pos
InitWalled ==
    /\ CreateRoadLayout(GridW, GridH)[0][0] = 1
    /\ grid_width = GridW
    /\ grid_height = GridH
    /\ road_map = CreateRoadLayout(GridW, GridH)
    /\ start_pos = InitialStart(GridW, GridH)
    /\ destination = <<0, 0>>
    /\ obstacles = WallAround(InitialStart(GridW, GridH), GridW, GridH,
                              CreateRoadLayout(GridW, GridH),
                              InitialStart(GridW, GridH), <<0, 0>>)
    /\ FpRest
    /\ AgentInit

\* the loop of main: a tick while the episode runs, a reset when it is over
NextCeiling ==
    \/ (~done /\ Step)
    \/ (done /\ episode < MaxEpisodes /\ Reset)

SpecCeiling == InitWalled /\ [][NextCeiling]_vars

\* short episodes, each ended by a reset
NextAnneal ==
    \/ (steps < AnnealTicks /\ Step)
    \/ (episode < AnnealEpisodes /\ Reset)

SpecAnneal == InitWalled /\ [][NextAnneal]_vars

\* calculate_reward called by itself
CalculateReward ==
    LET rw == calculate_reward(position, prev_dest_dist)
    IN /\ reward' = rw.reward
       /\ done' = rw.done
       /\ prev_dest_dist' = rw.prev_dest_dist
       /\ UNCHANGED <<envVars, fpVars, position, heading, epsilon, planned_path,
                      total_reward, steps, last_replan_step, q_table, episode, env_changes,
                      stepVars, q_values>>

\* calculate_reward called with the agent on any cell of a grid that has
\* off-road cells, prev_dest_dist None or the distance from a cell at most one
\* unit move away
InitReward ==
    /\ \E obs \in PlaceObstacles(PlanObstacles, RoadsW, RoadsH, CreateRoadLayout(RoadsW, RoadsH),
                                 InitialStart(RoadsW, RoadsH), InitialDestination(RoadsW, RoadsH)) :
         EnvInit(RoadsW, RoadsH, obs)
    /\ FpRest
    /\ position \in Cells(RoadsW, RoadsH)
    /\ prev_dest_dist \in {<<>>} \cup
           {<<DistSq(q, destination)>> : q \in {c \in Cells(RoadsW, RoadsH) : heuristic(c, position) <= 1}}
    /\ heading = 0
    /\ epsilon = EpsilonInitial
    /\ planned_path = <<>>
    /\ total_reward = 0
    /\ steps = 0
    /\ last_replan_step = 0
    /\ q_table = {}
    /\ reward = 0
    /\ done = FALSE
    /\ state = <<>>
    /\ action = -1
    /\ next_state = <<>>
    /\ q_values = <<>>
    /\ episode = 1
    /\ env_changes = 0

SpecReward == InitReward /\ [][CalculateReward]_vars

\* update_q_table called by itself
UpdateQTable ==
    /\ q_values' = update_q_values(q_values, state, action, reward, next_state)
    /\ q_table' = update_q_table(q_table, state, next_state)
    /\ UNCHANGED <<envVars, fpVars, position, heading, epsilon, planned_path, total_reward,
                   steps, prev_dest_dist, last_replan_step, callerVars, stepVars>>

\* two state keys, as get_state returns them one and two cells from the
\* destination with no obstacle in the radius
QKeys == {<<1, ObstacleRadius, 0, 0>>, <<2, ObstacleRadius, 0, 0>>}

\* the rewards update_q_table is called with: those calculate_reward returns,
\* and 10
QRewards == {-101, -11, -9, -1, 1, 10, 99}

\* the tables over keys of QKeys whose values are whole numbers up to MaxQ
QTables ==
    UNION {[D -> [1..4 -> {v * QUnit : v \in 0..MaxQ}]] : D \in SUBSET QKeys}

\* update_q_table(state, action, reward, next_state) called on every table of
\* QTables with every state, action, reward and next_state
InitQ ==
    /\ EnvInit(GridW, GridH, {})
    /\ FpRest
    /\ position = start_pos
    /\ heading = 0
    /\ epsilon = EpsilonInitial
    /\ planned_path = <<>>
    /\ total_reward = 0
    /\ steps = 0
    /\ prev_dest_dist = <<>>
    /\ last_replan_step = 0
    /\ q_values \in QTables
    /\ q_table = DOMAIN q_values
    /\ state \in QKeys
    /\ action \in actions
    /\ reward \in QRewards
    /\ next_state \in QKeys
    /\ done = FALSE
    /\ episode = 1
    /\ env_changes = 0

\* every stored value is a whole number, so that one update is exact in the
\* digits carried
WholeValues == \A k \in DOMAIN q_values : \A i \in 1..4 : q_values[k][i] % QUnit = 0

NextQ == WholeValues /\ UpdateQTable

SpecQ == InitQ /\ [][NextQ]_vars

\* execute_action called by itself
ExecuteAction ==
    LET ex == execute_action(action, position, heading, planned_path)
    IN /\ position' = ex.position
       /\ heading' = ex.heading
       /\ planned_path' = ex.planned_path
       /\ UNCHANGED <<envVars, fpVars, epsilon, total_reward, steps, prev_dest_dist,
                      last_replan_step, q_table, callerVars, stepVars, q_values>>

\* execute_action(action) called with the agent on any road cell of a grid
\* that has off-road cells, with any heading and any action, at most
\* PlanObstacles obstacles on the cells around the agent, and the Plan empty
\* or leading over a cell next to the agent to the destination
InitAct ==
    /\ position \in {c \in Cells(RoadsW, RoadsH) : CreateRoadLayout(RoadsW, RoadsH)[c[2]][c[1]] = 1}
    /\ \E obs \in PlaceObstacles(PlanObstacles, RoadsW, RoadsH, CreateRoadLayout(RoadsW, RoadsH),
                                 InitialStart(RoadsW, RoadsH), InitialDestination(RoadsW, RoadsH)) :
         /\ \A o \in obs : heuristic(o, position) = 1
         /\ EnvInit(RoadsW, RoadsH, obs)
    /\ FpRest
    /\ heading \in 0..3
    /\ action \in actions
    /\ planned_path \in {<<>>} \cup
           {<<c, destination>> : c \in {n \in Cells(RoadsW, RoadsH) : heuristic(n, position) = 1}}
    /\ epsilon = EpsilonInitial
    /\ total_reward = 0
    /\ steps = 0
    /\ prev_dest_dist = <<>>
    /\ last_replan_step = 0
    /\ q_table = {}
    /\ reward = 0
    /\ done = FALSE
    /\ episode = 1
    /\ env_changes = 0
    /\ state = <<>>
    /\ next_state = <<>>
    /\ q_values = <<>>

SpecAct == InitAct /\ [][ExecuteAction]_vars

\* Environment(width, height) and SelfDrivingAgent constructed on a grid
\* whose start_pos and destination lie more than 20 cells apart; the
\* obstacle sets are those of at most PlanObstacles cells off the row of
\* start_pos and at most one cell beyond the radius get_state looks at, and
\* the one that walls start_pos in
InitLong ==
    /\ \E obs \in {S \in PlaceObstacles(PlanObstacles, LongW, LongH, CreateRoadLayout(LongW, LongH),
                                        InitialStart(LongW, LongH), InitialDestination(LongW, LongH)) :
                       \A o \in S :
                          /\ o[2] # InitialStart(LongW, LongH)[2]
                          /\ DistSq(o, InitialStart(LongW, LongH))
                                <= (ObstacleRadius + 1) * (ObstacleRadius + 1)}
                    \cup {WallAround(InitialStart(LongW, LongH), LongW, LongH,
                                     CreateRoadLayout(LongW, LongH),
                                     InitialStart(LongW, LongH), InitialDestination(LongW, LongH))} :
         EnvInit(LongW, LongH, obs)
    /\ FpRest
    /\ AgentInit

\* ticks and resets
NextKeys ==
    \/ (steps < MaxTicks /\ Step)
    \/ (episode < MaxEpisodes /\ Reset)

SpecKeys == InitLong /\ [][NextKeys]_vars

\* random_destination(prev_dest): a valid cell other than start_pos and
\* prev_dest, or the center cell once more than 1000 draws have failed
random_destination(prev_dest) ==
    {c \in Cells(grid_width, grid_height) :
        is_valid_position(c) /\ c # start_pos /\ c # prev_dest}
    \cup {<<grid_width \div 2, grid_height \div 2>>}

\* main, lines 84-95: the episode is over; a new destination is drawn and set,
\* the obstacles are regenerated around it, update_environment_ref and reset
\* are called and the episode counter is advanced
NewEpisode ==
    /\ done
    /\ \E new_dest \in random_destination(destination) :
         LET dest == IF is_valid_position(new_dest) THEN new_dest ELSE destination
         IN /\ destination' = dest
            /\ obstacles' \in PlaceObstacles(NumObstacles, grid_width, grid_height, road_map,
                                             start_pos, dest)
    /\ position' = start_pos
    /\ heading' = 0
    /\ total_reward' = 0
    /\ steps' = 0
    /\ planned_path' = <<>>
    /\ prev_dest_dist' = <<>>
    /\ epsilon' = AnnealedEpsilon(epsilon)
    /\ episode' = episode + 1
    /\ done' = FALSE
    /\ UNCHANGED <<grid_width, grid_height, road_map, start_pos, fpVars, last_replan_step,
                   q_table, reward, env_changes, stepVars, q_values>>

\* the loop of main without mouse events: a tick while the episode runs, a
\* new episode when step() has returned true
NextMain ==
    \/ (~done /\ steps < MaxTicks /\ Step)
    \/ (episode < MaxEpisodes /\ NewEpisode)

SpecMain == InitMain /\ [][NextMain]_vars

\* Environment(width, height) constructed on the grid with off-road cells,
\* with at most PlanObstacles obstacles, and the agent constructed on it
InitEnv ==
    /\ \E obs \in PlaceObstacles(PlanObstacles, RoadsW, RoadsH, CreateRoadLayout(RoadsW, RoadsH),
                                 InitialStart(RoadsW, RoadsH), InitialDestination(RoadsW, RoadsH)) :
         EnvInit(RoadsW, RoadsH, obs)
    /\ FpRest
    /\ AgentInit

\* regenerate_obstacles(PlanObstacles) on the grid with off-road cells
RegenerateFew == Regenerate(PlanObstacles)

\* any sequence of set_destination and regenerate_obstacles calls
NextEnv ==
    \/ (env_changes < EnvCalls /\ SetDestination)
    \/ (env_changes < EnvCalls /\ RegenerateFew)

SpecEnv == InitEnv /\ [][NextEnv]_vars

\* main up to its loop, with at most PlanObstacles obstacles regenerated
\* around the first destination
InitFollow ==
    /\ \E dest \in Cells(GridW, GridH) \ {InitialStart(GridW, GridH)} :
         \E obs \in PlaceObstacles(PlanObstacles, GridW, GridH, CreateRoadLayout(GridW, GridH),
                                    InitialStart(GridW, GridH), dest) :
            /\ CreateRoadLayout(GridW, GridH)[dest[2]][dest[1]] = 1
            /\ grid_width = GridW
            /\ grid_height = GridH
            /\ road_map = CreateRoadLayout(GridW, GridH)
            /\ start_pos = InitialStart(GridW, GridH)
            /\ destination = dest
            /\ obstacles = obs
    /\ FpRest
    /\ AgentInit

\* ticks of one episode, with the obstacles regenerated between them
NextFollow ==
    \/ (~done /\ steps < FollowTicks /\ Step)
    \/ (env_changes < MaxEnvChanges /\ RegenerateFew)

SpecFollow == InitFollow /\ [][NextFollow]_vars

(* ---------------- what the planner claims are measured against ---------------- *)
UnitDeltas == {<<1, 0>>, <<-1, 0>>, <<0, 1>>, <<0, -1>>}

\* the valid cells one unit move away from a cell of S
ValidSteps(S) ==
    {n \in Cells(grid_width, grid_height) :
        is_valid_position(n) /\ \E c \in S : <<n[1] - c[1], n[2] - c[2]>> \in UnitDeltas}

RECURSIVE MovesFrom(_, _, _, _)
\* least number of unit moves through valid cells from the cells of frontier
\* (d moves from the start) to goal, -1 if there is no such sequence of moves
MovesFrom(seen, frontier, goal, d) ==
    IF goal \in frontier THEN d
    ELSE LET next == ValidSteps(frontier) \ seen
         IN IF next = {} THEN -1 ELSE MovesFrom(seen \cup next, next, goal, d + 1)

ShortestMoves(start, goal) == MovesFrom({start}, {start}, goal, 0)

ManhattanDistance(a, b) ==
    (IF a[1] < b[1] THEN b[1] - a[1] ELSE a[1] - b[1])
    + (IF a[2] < b[2] THEN b[2] - a[2] ELSE a[2] - b[2])

Returned == fp_pc = "done"

PathMoves == Len(fp_path) - 1

ConsecutiveUnitMoves(path) ==
    \A i \in 1..(Len(path) - 1) :
        <<path[i + 1][1] - path[i][1], path[i + 1][2] - path[i][2]>> \in UnitDeltas

(* ---------------- planner claims ---------------- *)
\* C1 as stated: a returned non-empty path begins at start, ends at goal,
\* moves by one unit delta between consecutive positions, and every position
\* of it, the first included, satisfies is_valid_position.
C1_EveryPositionValid ==
    (Returned /\ fp_path # <<>>) =>
        /\ fp_path[1] = fp_start
        /\ fp_path[Len(fp_path)] = fp_goal
        /\ ConsecutiveUnitMoves(fp_path)
        /\ \A i \in 1..Len(fp_path) : is_valid_position(fp_path[i])

\* C1 amended: a returned non-empty path begins at start, ends at goal, moves
\* by one unit delta between consecutive positions, and every position after
\* the first satisfies is_valid_position; start itself is never tested.
C1_PathWellFormed ==
    (Returned /\ fp_path # <<>>) =>
        /\ fp_path[1] = fp_start
        /\ fp_path[Len(fp_path)] = fp_goal
        /\ ConsecutiveUnitMoves(fp_path)
        /\ \A i \in 2..Len(fp_path) : is_valid_position(fp_path[i])

\* a path of at least three moves returned from a start that is an obstacle
C1_Witness ==
    /\ Returned
    /\ Len(fp_path) >= 4
    /\ fp_start \in obstacles
    /\ Cardinality(obstacles) = PlanObstacles

\* C2 as stated: no sequence of unit moves through valid cells from start to
\* goal has fewer moves than a returned non-empty path.
C2_ShortestPath ==
    (Returned /\ fp_path # <<>>) => PathMoves = ShortestMoves(fp_start, fp_goal)

\* C3 as stated: with no obstacles, whenever goal is reachable from start the
\* returned path has exactly Manhattan-distance many moves.
C3_ManhattanWhenReachable ==
    (Returned /\ obstacles = {} /\ ShortestMoves(fp_start, fp_goal) >= 0) =>
        /\ fp_path # <<>>
        /\ PathMoves = ManhattanDistance(fp_start, fp_goal)

\* the axis-aligned rectangle of cells spanned by a and b
Rectangle(a, b) ==
    {c \in Cells(grid_width, grid_height) :
        /\ Min(a[1], b[1]) <= c[1] /\ c[1] <= a[1] + b[1] - Min(a[1], b[1])
        /\ Min(a[2], b[2]) <= c[2] /\ c[2] <= a[2] + b[2] - Min(a[2], b[2])}

\* C3 amended: with no obstacles, whenever every cell of the rectangle spanned
\* by start and goal is a road cell the returned path has exactly
\* Manhattan-distance many moves.
C3_ManhattanInRoadRectangle ==
    (Returned /\ obstacles = {} /\ \A c \in Rectangle(fp_start, fp_goal) : is_road(c)) =>
        /\ fp_path # <<>>
        /\ PathMoves = ManhattanDistance(fp_start, fp_goal)

\* a path with a turn in it returned inside an all-road rectangle of a grid
\* that has off-road cells
C3_Witness ==
    /\ Returned
    /\ obstacles = {}
    /\ \A c \in Rectangle(fp_start, fp_goal) : is_road(c)
    /\ fp_start[1] # fp_goal[1]
    /\ fp_start[2] # fp_goal[2]
    /\ PathMoves >= 4
    /\ \E c \in Cells(grid_width, grid_height) : ~is_road(c)

RECURSIVE SumOver(_, _)
\* the sum of g[c] over the cells c of S
SumOver(S, g) ==
    IF S = {} THEN 0
    ELSE LET c == CHOOSE x \in S : TRUE IN g[c] + SumOver(S \ {c}, g)

\* what bounds the iterations still to come: every iteration pops one entry,
\* and pushes an entry only for a cell whose g_score it lowers.  A cell
\* without a g_score counts as the number of cells, which no g_score reaches.
Variant(g, open) ==
    LET n == grid_width * grid_height
    IN 2 * (SumOver(DOMAIN g, g) + n * (n - Cardinality(DOMAIN g))) + Cardinality(open)

\* C4: find_path terminates (every iteration of the loop lowers a
\* natural-valued variant), and it returns the empty sequence exactly when
\* goal is not reachable from start through valid cells.
C4_TerminatesEmptyIffUnreachable ==
    /\ [][(fp_pc = "loop" /\ fp_pc' = "loop") =>
            /\ Variant(g_score', open_set') < Variant(g_score, open_set)
            /\ Variant(g_score', open_set') >= 0]_vars
    /\ [](Returned => ((fp_path = <<>>) <=> (ShortestMoves(fp_start, fp_goal) = -1)))

\* the empty sequence returned for a valid goal that obstacles cut off from a
\* valid start
C4_Witness ==
    /\ Returned
    /\ fp_path = <<>>
    /\ is_valid_position(fp_start)
    /\ is_valid_position(fp_goal)
    /\ obstacles # {}

(* ---------------- agent claims ---------------- *)
\* the Plan that _maybe_replan leaves when it is invoked in the current state
PolicyPlan == maybe_replan(position, planned_path, steps, last_replan_step).planned_path

\* C5 as stated: whatever the obstacles have become between ticks, the Plan
\* that _maybe_replan leaves contains no cell that is currently an obstacle.
C5_PlanFreeOfObstacles == CellsOf(PolicyPlan) \cap obstacles = {}

\* C5 amended: whenever the planner finds a path from the agent's position to
\* the destination, the Plan that _maybe_replan leaves contains no cell that
\* is currently an obstacle; when it finds none the held Plan stays as it is.
C5_PlanFreeWhenPathFound ==
    /\ (find_path(position, destination) # <<>>) => (CellsOf(PolicyPlan) \cap obstacles = {})
    /\ (find_path(position, destination) = <<>>) => (PolicyPlan = planned_path)

\* an obstacle has landed on the held Plan, the planner finds a way round it
\* and the policy installs it
C5_Witness ==
    /\ planned_path # <<>>
    /\ CellsOf(planned_path) \cap obstacles # {}
    /\ find_path(position, destination) # <<>>
    /\ PolicyPlan # <<>>
    /\ PolicyPlan # planned_path

\* C6: calculate_reward follows the ordered table: on the destination exactly
\* 99 and terminal with prev_dest_dist untouched; otherwise on an obstacle
\* exactly -101 and terminal; otherwise not terminal, -1 with -10 added off the
\* road and +2 added when a previous distance is known and the new distance is
\* strictly smaller, and prev_dest_dist becomes the new distance.
C6_RewardTable ==
    [][LET dist == DistSq(position, destination)
           closer == prev_dest_dist # <<>> /\ dist < prev_dest_dist[1]
       IN IF position = destination
          THEN reward' = 99 /\ done' /\ prev_dest_dist' = prev_dest_dist
          ELSE IF position \in obstacles
          THEN reward' = -101 /\ done'
          ELSE /\ ~done'
               /\ prev_dest_dist' = <<dist>>
               /\ is_road(position) /\ ~closer => reward' = -1
               /\ is_road(position) /\ closer => reward' = 1
               /\ ~is_road(position) /\ ~closer => reward' = -11
               /\ ~is_road(position) /\ closer => reward' = -9]_vars

\* calculate_reward has returned -11, not terminal, for an off-road cell
C6_Witness ==
    /\ reward = -11
    /\ ~done
    /\ ~is_road(position)
    /\ position \notin obstacles
    /\ prev_dest_dist = <<DistSq(position, destination)>>

\* C7: in an episode none of whose ticks reaches the destination or lands on
\* an obstacle, step() returns false on each of ticks 1..499 and true on tick
\* 500.
C7_StepCeiling ==
    /\ (steps >= 1 /\ steps <= 499 /\ position # destination /\ position \notin obstacles) => ~done
    /\ (steps >= 500) => (done /\ steps = 500)

\* tick 500 of an episode in which every tick earned the step penalty alone
C7_Witness ==
    /\ steps = 500
    /\ done
    /\ total_reward = -500
    /\ position # destination
    /\ position \notin obstacles

\* C8 as stated: once step() has returned terminal, nothing but a reset moves
\* the agent, adds to the cumulative reward, counts a step or touches the
\* value table.
C8_NoTickAfterTerminal ==
    [][(done /\ episode' = episode) =>
          UNCHANGED <<position, heading, total_reward, steps, q_table>>]_vars

\* C9 as stated: a reset leaves position = start cell, heading = 0, cumulative
\* reward = 0, step counter = 0, previous distance unset, last-replan step
\* counter = 0 and the Plan empty, and leaves the value table unchanged.
C9_ResetRestoresAgentState ==
    [][(episode' # episode) =>
          /\ position' = start_pos
          /\ heading' = 0
          /\ total_reward' = 0
          /\ steps' = 0
          /\ prev_dest_dist' = <<>>
          /\ last_replan_step' = 0
          /\ planned_path' = <<>>
          /\ q_table' = q_table]_vars

\* C10: only a reset changes epsilon, a reset leaves max(0.05, 0.995 * epsilon),
\* which is at most epsilon, and epsilon always lies between 0.05 and 0.3.
C10_EpsilonAnnealing ==
    /\ [][/\ (episode' = episode) => (epsilon' = epsilon)
          /\ (episode' # episode) =>
                /\ epsilon' <= epsilon
                /\ epsilon' = (IF (epsilon * 995 + 500) \div 1000 < (5 * EpsUnit) \div 100
                               THEN (5 * EpsUnit) \div 100
                               ELSE (epsilon * 995 + 500) \div 1000)]_vars
    /\ []((5 * EpsUnit) \div 100 <= epsilon /\ epsilon <= (3 * EpsUnit) \div 10)

\* epsilon has come down to the floor and the agent has ticked since
C10_Witness ==
    /\ epsilon = EpsilonFloor
    /\ epsilon < EpsilonInitial
    /\ steps >= 1

\* C11: every step() and every reset() leaves the obstacle set, the
\* destination, the start cell and the road map of the environment unchanged.
C11_AgentLeavesEnvironment ==
    [][(steps' # steps \/ episode' # episode) =>
          UNCHANGED <<obstacles, destination, start_pos, road_map>>]_vars

\* a tick of the second episode, in an environment that has obstacles
C11_Witness ==
    /\ episode >= 2
    /\ steps >= 1
    /\ obstacles # {}

\* the value list stored for key k, [0.0] * 4 if there is none
ValuesAt(table, k) == IF k \in DOMAIN table THEN table[k] ELSE <<0, 0, 0, 0>>

\* C12: update_q_table(s, a, r, s') leaves entries for s and s' (zero-filled if
\* they were absent), sets Q[s][a] to Q[s][a] + 0.1 * (r + 0.95 * max Q[s'] -
\* Q[s][a]) computed from the values before the update, and changes no other
\* stored value; with Q = 0, r = 10 and max_next = 0 the new value is 1.0.
C12_QUpdate ==
    [][LET current_q == ValuesAt(q_values, state)[action + 1]
           max_next_q == MaxValue(ValuesAt(q_values, next_state))
       IN /\ DOMAIN q_values' = DOMAIN q_values \cup {state, next_state}
          /\ 1000 * q_values'[state][action + 1]
                = 900 * current_q + 100 * reward * QUnit + 95 * max_next_q
          /\ \A k \in DOMAIN q_values' : \A i \in 1..4 :
                (k # state \/ i # action + 1) => q_values'[k][i] = ValuesAt(q_values, k)[i]
          /\ (current_q = 0 /\ reward = 10 /\ max_next_q = 0)
                => q_values'[state][action + 1] = QUnit]_vars

\* a value 0 updated with r = 10 and max_next = 1.0: 0.1 * (10 + 0.95) = 1.095
C12_Witness ==
    /\ reward = 10
    /\ state # next_state
    /\ {state, next_state} \subseteq DOMAIN q_values
    /\ q_values[next_state] = <<QUnit, 0, 0, 0>>
    /\ 1000 * q_values[state][action + 1] = 1095 * QUnit

\* C13 as stated, for an episode in which the Plan stays empty, so that only
\* the first tick and the periodic trigger invoke the planner: the tick that
\* starts with 30, 60, 90, ... ticks of the episode elapsed finds at least 30
\* ticks since the last invocation and invokes the planner.
C13_PeriodicReplan ==
    (~done /\ planned_path = <<>> /\ steps > 0 /\ steps % 30 = 0) =>
        (steps - last_replan_step >= replan_every_n_steps)

\* C14: when find_path returns the empty sequence the held Plan is what it was
\* before the call, on the first-tick planning, on the periodic trigger and on
\* the triggers that scan the Plan; an empty Plan stays empty.
C14_FailedReplanKeepsPlan ==
    (find_path(position, destination) = <<>>) =>
        /\ Replanned(position, planned_path) = planned_path
        /\ PolicyPlan = planned_path
        /\ maybe_replan(position, planned_path, last_replan_step + replan_every_n_steps,
                        last_replan_step).planned_path = planned_path

\* the tick before found an obstacle on the Plan and no path to the
\* destination, and the Plan is still held
C14_Witness ==
    /\ steps >= 2
    /\ last_replan_step = steps - 1
    /\ planned_path # <<>>
    /\ CellsOf(planned_path) \cap obstacles # {}
    /\ find_path(position, destination) = <<>>

\* the Plan that the tick starting in the current state hands to get_state and
\* choose_action: the first-tick planning and _maybe_replan have run
TickPlan ==
    maybe_replan(position,
                 IF steps = 0 THEN Replanned(position, planned_path) ELSE planned_path,
                 steps, last_replan_step).planned_path

\* the one action C15 allows with the agent at pos heading head holding plan
PlanAction(pos, head, plan) ==
    IF directions[head + 1] = <<plan[1][1] - pos[1], plan[1][2] - pos[2]>> THEN 0 ELSE 1

\* C15: whenever the Plan is non-empty, choose_action can return one action
\* only (no random draw, no value looked up): Forward if the direction vector
\* of the heading equals the delta from the position to the head of the Plan,
\* TurnRight otherwise.
C15_PlanFollowing ==
    /\ (TickPlan # <<>>) =>
          choose_action(position, heading, TickPlan) = {PlanAction(position, heading, TickPlan)}
    /\ (planned_path # <<>>) =>
          choose_action(position, heading, planned_path)
              = {PlanAction(position, heading, planned_path)}

\* the last tick drove forward onto the head of the Plan, and more of the
\* Plan is left
C15_Witness ==
    /\ steps >= 1
    /\ action = 0
    /\ position # start_pos
    /\ planned_path # <<>>

\* the cell c is out of bounds, not a road cell or an obstacle
Rejected(c) ==
    \/ c[1] < 0 \/ c[1] >= grid_width \/ c[2] < 0 \/ c[2] >= grid_height
    \/ road_map[c[2]][c[1]] = 0
    \/ c \in obstacles

\* C16: a Forward or Backward action whose target is rejected leaves
\* position, heading and Plan unchanged, and one whose target is accepted
\* moves there keeping the heading; TurnRight and TurnLeft change the heading
\* by +1 and -1 modulo 4 and leave position and Plan unchanged; the Plan
\* changes only by losing its head to a Forward move that lands on it.
C16_ExecuteAction ==
    [][LET d == directions[heading + 1]
           fwd == <<position[1] + d[1], position[2] + d[2]>>
           back == <<position[1] - d[1], position[2] - d[2]>>
       IN /\ (action = 0 /\ Rejected(fwd)) => UNCHANGED <<position, heading, planned_path>>
          /\ (action = 3 /\ Rejected(back)) => UNCHANGED <<position, heading, planned_path>>
          /\ (action = 0 /\ ~Rejected(fwd)) => (position' = fwd /\ heading' = heading)
          /\ (action = 3 /\ ~Rejected(back)) => (position' = back /\ heading' = heading)
          /\ (action = 1) => (heading' = (heading + 1) % 4 /\ UNCHANGED <<position, planned_path>>)
          /\ (action = 2) => (heading' = (heading + 4 - 1) % 4 /\ UNCHANGED <<position, planned_path>>)
          /\ (planned_path # <<>> /\ action = 0 /\ ~Rejected(fwd) /\ planned_path[1] = fwd)
                => planned_path' = Tail(planned_path)
          /\ (planned_path' # planned_path) =>
                /\ action = 0
                /\ position' = planned_path[1]
                /\ position' # position
                /\ planned_path' = Tail(planned_path)]_vars

\* a Forward move has landed on the head of the Plan and popped it, and the
\* next Forward move is rejected by an off-road cell
C16_Witness ==
    /\ action = 0
    /\ planned_path = <<destination>>
    /\ LET d == directions[heading + 1]
           fwd == <<position[1] + d[1], position[2] + d[2]>>
       IN InBounds(fwd) /\ ~is_road(fwd)

\* C17: while find_path runs, every cell other than the start that has an
\* entry in the frontier has an entry carrying its current f = g + h, and the
\* entry about to be popped has priority equal to its cell's current best g
\* plus the Manhattan heuristic.
C17_FrontierCarriesImprovedPriority ==
    (fp_pc = "loop") =>
        /\ \A e \in open_set :
              (e[2] # fp_start) =>
                  <<g_score[e[2]] + heuristic(e[2], fp_goal), e[2]>> \in open_set
        /\ (open_set # {} /\ HeapMin(open_set)[2] # fp_start) =>
              HeapMin(open_set)[1]
                  = g_score[HeapMin(open_set)[2]] + heuristic(HeapMin(open_set)[2], fp_goal)

\* a key of the value table: the four buckets in their ranges
StateKey == (0..20) \X (0..5) \X (0..3) \X (0..3)

WellStored(plan) ==
    /\ plan = Tail(find_path(position, destination))
    /\ position \notin CellsOf(plan)
    /\ (plan # <<>>) =>
          /\ heuristic(plan[1], position) = 1
          /\ plan[Len(plan)] = destination
    /\ (position = destination) => plan = <<>>

\* C19: when the planner finds a path, the Plan stored by the first-tick
\* planning, by the periodic trigger, by the obstacle-on-Plan trigger and by
\* the deviation trigger is that path without its first element (the last two
\* tried with the held Plan and with one-cell Plans on an obstacle, on
\* start_pos and on the destination).
C19_StoredPlan ==
    (find_path(position, destination) # <<>>) =>
        /\ WellStored(Replanned(position, planned_path))
        /\ WellStored(maybe_replan(position, planned_path,
                                   last_replan_step + replan_every_n_steps,
                                   last_replan_step).planned_path)
        /\ (planned_path # <<>> /\ CellsOf(planned_path) \cap obstacles # {})
              => WellStored(PolicyPlan)
        /\ \A c \in obstacles \cup {start_pos, destination} :
              (c \in obstacles \/ DistSq(position, c) > 4)
                  => WellStored(maybe_replan(position, <<c>>, steps, steps).planned_path)

\* the tick before found an obstacle on the Plan and stored a new Plan, which
\* leads over free cells to the destination
C19_Witness ==
    /\ steps >= 2
    /\ last_replan_step = steps - 1
    /\ action = 0
    /\ Len(planned_path) >= 2
    /\ CellsOf(planned_path) \cap obstacles = {}
    /\ planned_path[Len(planned_path)] = destination
    /\ env_changes >= 1

\* C20: a non-empty Plan has its head one unit move from the agent's
\* position, both as held between ticks and as the tick's planning hands it to
\* choose_action; so choose_action follows the Plan whenever there is one
\* (the epsilon-greedy branch is reached with an empty Plan only), and the
\* nearest Plan cell is never more than 2.0 away when _maybe_replan looks.
C20_PlanHeadAdjacent ==
    /\ (planned_path # <<>>) =>
          /\ heuristic(planned_path[1], position) = 1
          /\ FollowsPlan(position, planned_path)
          /\ MinDistSq(position, CellsOf(planned_path))
                <= replan_on_deviation_threshold * replan_on_deviation_threshold
    /\ (TickPlan # <<>>) =>
          /\ heuristic(TickPlan[1], position) = 1
          /\ FollowsPlan(position, TickPlan)
    /\ (choose_action(position, heading, TickPlan) = actions) => TickPlan = <<>>

\* in a later episode, after the caller changed the environment, the agent
\* has moved off start_pos along a Plan and still holds the rest of it
C20_Witness ==
    /\ episode >= 2
    /\ env_changes >= 1
    /\ steps >= 2
    /\ position # start_pos
    /\ Len(planned_path) >= 2

C22_EnvironmentWellFormed ==
    /\ InBounds(destination)
    /\ road_map[destination[2]][destination[1]] = 1
    /\ destination \notin obstacles
    /\ start_pos \notin obstacles
    /\ \A o \in obstacles : InBounds(o) /\ road_map[o[2]][o[1]] = 1
    /\ \A pos \in DestinationInputs :
          (~InBounds(pos) \/ road_map[pos[2]][pos[1]] = 0 \/ pos \in obstacles)
              => set_destination(pos) = [destination |-> destination, result |-> FALSE]

\* set_destination has moved the destination next to an off-road cell and
\* regenerate_obstacles has then put an obstacle on the cell where the
\* destination was constructed
C22_Witness ==
    /\ env_changes >= 2
    /\ destination # InitialDestination(grid_width, grid_height)
    /\ InitialDestination(grid_width, grid_height) \in obstacles
    /\ \E c \in Cells(grid_width, grid_height) :
          road_map[c[2]][c[1]] = 0 /\ heuristic(c, destination) = 1

\* right turns that bring heading head to face the cell target, one unit move
\* from pos
TurnsNeeded(pos, head, target) ==
    CHOOSE k \in 0..3 :
        directions[((head + k) % 4) + 1] = <<target[1] - pos[1], target[2] - pos[2]>>

\* C23: on a tick whose Plan (as the tick's planning leaves it) is non-empty
\* with a valid head, the agent needs k <= 3 right turns to face the head: if
\* k = 0 it goes Forward onto the head and the Plan loses it; otherwise it
\* turns right once, keeps position and Plan, and needs k - 1 turns
\* afterwards.  So an unreplaced Plan is shortened within 4 ticks, after at
\* most 3 consecutive TurnRight actions, and the heading changes by right
\* turns only.
C23_TurnsThenForward ==
    [][(steps' = steps + 1 /\ TickPlan # <<>> /\ is_valid_position(TickPlan[1])) =>
          /\ heuristic(TickPlan[1], position) = 1
          /\ TurnsNeeded(position, heading, TickPlan[1]) \in 0..3
          /\ IF TurnsNeeded(position, heading, TickPlan[1]) = 0
             THEN /\ action' = 0
                  /\ heading' = heading
                  /\ position' = TickPlan[1]
                  /\ planned_path' = Tail(TickPlan)
             ELSE /\ action' = 1
                  /\ heading' = (heading + 1) % 4
                  /\ position' = position
                  /\ planned_path' = TickPlan
                  /\ directions[((heading' + TurnsNeeded(position, heading, TickPlan[1]) - 1) % 4) + 1]
                       = <<planned_path'[1][1] - position'[1],
                           planned_path'[1][2] - position'[2]>>]_vars

\* the first four ticks were three right turns and a Forward onto the cell
\* above start_pos, and the rest of the Plan is held
C23_Witness ==
    /\ steps = 4
    /\ env_changes = 0
    /\ heading = 3
    /\ action = 0
    /\ position = <<start_pos[1], start_pos[2] - 1>>
    /\ planned_path # <<>>

====
